---- MODULE Spec2Model ----
(***************************************************************************)
(* fetch-retrier: one call of fetchRetrier(url, options) as a state        *)
(* machine.  An action is one synchronous segment of the async function    *)
(* (the code that runs between two awaits), or one event of the            *)
(* environment that settles the promise the function is awaiting           *)
(* (transport response, transport error, timeout timer, body read,         *)
(* backoff timer).                                                         *)
(***************************************************************************)
EXTENDS Integers, Sequences, FiniteSets

\* ---------------------------------------------------------------- bounds
MaxRetries == 3      \* options.retries is drawn from 0..MaxRetries
MaxBase == 1         \* options.baseBackoffMs is drawn from 0..MaxBase
RandDen == 2         \* Math.random() is drawn from {n / RandDen : n \in 0..RandDen-1}
JMaxBase == 4        \* fullJitter alone: base is drawn from 0..JMaxBase
JMaxAttempt == 4     \* fullJitter alone: attempt is drawn from 1..JMaxAttempt
JRandDen == 8        \* fullJitter alone: Math.random() is n / d, 0 <= n < d <= JRandDen
ConcRetries == 2     \* two concurrent calls: retries is drawn from 1..ConcRetries

\* ---------------------------------------------------------------- inputs
\* HTTP statuses the transport may answer with.
Statuses == {200, 400, 418, 429, 500, 502, 503, 504}

\* Response.ok as the transport sets it (status in the range 200-299).
ResponseOk(status) == status \in 200..299

\* Bodies res.text() may resolve with.
Bodies == {"teapot", "{\"retry\": true}"}

\* body.includes('"retry": true')
BodyIncludesRetry(body) == body = "{\"retry\": true}"

\* A response object: id is the identity of the object (the transport
\* invocation that produced it), body what its text() resolves with when it
\* resolves.
Response(id, status, body) ==
    [id |-> id, status |-> status, ok |-> ResponseOk(status), body |-> body]
NoResponse == [id |-> 0, status |-> 0, ok |-> FALSE, body |-> ""]

\* A thrown value: cls is its class (what instanceof sees), name its .name,
\* origin where it was created, id the invocation it belongs to, status the
\* status interpolated into the message of the errors the code creates.
ErrorValue(cls, name, origin, id, status) ==
    [cls |-> cls, name |-> name, origin |-> origin, id |-> id, status |-> status]
NoError == ErrorValue("none", "none", "none", 0, 0)

\* The shapes of values a promise of the environment may reject with:
\* a DOMException AbortError, a TypeError, a plain Error, a TypeError renamed
\* AbortError, and a thrown non-Error object that calls itself AbortError.
ThrownShapes ==
    { <<"Error", "AbortError">>, <<"TypeError", "TypeError">>, <<"Error", "Error">>,
      <<"TypeError", "AbortError">>, <<"Object", "AbortError">> }

\* err instanceof Error
InstanceOfError(err) == err.cls \in {"Error", "TypeError"}
\* err instanceof TypeError
InstanceOfTypeError(err) == err.cls = "TypeError"

\* The predicates options.shouldRetry is drawn from; "default" is the option
\* left undefined.
Predicates == {"default", "teapot", "never", "body", "readme", "throwsType", "throwsError"}

\* ---------------------------------------------------------------- helpers
RetriableStatuses == {429, 500, 502, 503, 504}

\* defaultShouldRetry with 429 left out of the list.
defaultShouldRetry_no429(res) == res.status \in {500, 502, 503, 504}

defaultShouldRetry(res) == res.status \in RetriableStatuses

\* The result of calling options.shouldRetry ?? defaultShouldRetry on
\* (res, body): "true", "false", or the shape it throws.
shouldRetryResult(p, res, body) ==
    CASE p = "default" -> IF defaultShouldRetry(res) THEN "true" ELSE "false"
      [] p = "teapot" -> IF res.status = 418 THEN "true" ELSE "false"
      [] p = "never" -> "false"
      [] p = "body" -> IF BodyIncludesRetry(body) THEN "true" ELSE "false"
      [] p = "readme" ->
            IF res.status \in {429, 500, 502, 503} THEN "true"
            ELSE IF res.status = 200 /\ BodyIncludesRetry(body) THEN "true"
            ELSE "false"
      [] p = "throwsType" -> "TypeError"
      [] p = "throwsError" -> "Error"

Pow2(n) == 2 ^ n

\* fullJitter with Math.ceil in place of Math.floor.
fullJitter_ceil(base, att, rnd) ==
    LET cap == base * Pow2(att) IN (rnd[1] * cap + rnd[2] - 1) \div rnd[2]

\* fullJitter with Math.random() = rnd[1] / rnd[2], a fraction in [0, 1).
fullJitter(base, att, rnd) ==
    LET cap == base * Pow2(att) IN (rnd[1] * cap) \div rnd[2]

\* The timer never cancelled (clearTimeout given something else than timer).
clearTimeout_noop(t) == t

\* clearTimeout(timer): a pending timer is cancelled, anything else is left.
clearTimeout(t) == IF t = "armed" THEN "cleared" ELSE t

\* ---------------------------------------------------------------- state
VARIABLES
    retries,        \* options.retries
    baseBackoffMs,  \* options.baseBackoffMs
    shouldRetry,    \* options.shouldRetry (a member of Predicates)
    pc,             \* where the call is: start, fetch, text, wait, returned, failed
    attempt,        \* the loop variable
    timer,          \* this attempt's timeout timer: none, armed, fired, cleared
    aborted,        \* controller.signal.aborted of this attempt's controller
    res,            \* the response of this attempt (NoResponse before it arrives)
    text,           \* the body read from res ("" before it is read)
    waitMs,         \* the duration of the last backoff delay
    result,         \* what the call returned or threw
    calls,          \* number of transport invocations so far
    outcomes,       \* per settled attempt: how it ended
    delays,         \* the attempt numbers passed to fullJitter, in order
    predCalls,      \* number of evaluations of the retry predicate
    predArg,        \* the arguments of the last evaluation
    other           \* a second call of fetchRetrier that is suspended: the
                    \* values of its variables (NoCall when there is none)

vars == << retries, baseBackoffMs, shouldRetry, pc, attempt, timer, aborted, res,
           text, waitMs, result, calls, outcomes, delays, predCalls, predArg,
           other >>

config == << retries, baseBackoffMs, shouldRetry >>

NoResult == [kind |-> "none", res |-> NoResponse, err |-> NoError]
NoArg == [res |-> NoResponse, body |-> ""]

\* How an attempt ended: kind is ok, retriable, nonretriable (a response) or
\* abort, network, fatal (a caught value, kept in err); status is the status
\* of the response that was judged, 0 for a caught value.
Outcome(kind, status, err) == [kind |-> kind, status |-> status, err |-> err]

\* The variables of a call that has not started, as a record.
NewCall(r, b, p) ==
    [retries |-> r, baseBackoffMs |-> b, shouldRetry |-> p, pc |-> "start",
     attempt |-> 0, timer |-> "none", aborted |-> FALSE, res |-> NoResponse,
     text |-> "", waitMs |-> 0, result |-> NoResult, calls |-> 0,
     outcomes |-> << >>, delays |-> << >>, predCalls |-> 0, predArg |-> NoArg]
NoCall == [pc |-> "none"]

\* The variables of the call that is running, as a record.
ThisCall ==
    [retries |-> retries, baseBackoffMs |-> baseBackoffMs, shouldRetry |-> shouldRetry,
     pc |-> pc, attempt |-> attempt, timer |-> timer, aborted |-> aborted,
     res |-> res, text |-> text, waitMs |-> waitMs, result |-> result,
     calls |-> calls, outcomes |-> outcomes, delays |-> delays,
     predCalls |-> predCalls, predArg |-> predArg]

Init ==
    /\ retries \in 0..MaxRetries
    /\ baseBackoffMs \in 0..MaxBase
    /\ shouldRetry \in Predicates
    /\ pc = "start"
    /\ attempt = 0
    /\ timer = "none"
    /\ aborted = FALSE
    /\ res = NoResponse
    /\ text = ""
    /\ waitMs = 0
    /\ result = NoResult
    /\ calls = 0
    /\ outcomes = << >>
    /\ delays = << >>
    /\ predCalls = 0
    /\ predArg = NoArg
    /\ other = NoCall

\* ---------------------------------------------------------------- steps
\* throw err out of fetchRetrier: the promise rejects with err.
Throw(err) ==
    /\ pc' = "failed"
    /\ result' = [kind |-> "throw", res |-> NoResponse, err |-> err]
    /\ UNCHANGED << waitMs, delays >>

\* return a copy of r (res.clone()): a new object.
Return_clone(r) ==
    /\ pc' = "returned"
    /\ result' = [kind |-> "return", res |-> [r EXCEPT !.id = 0], err |-> NoError]
    /\ UNCHANGED << waitMs, delays >>

\* return r: the promise resolves with r.
Return(r) ==
    /\ pc' = "returned"
    /\ result' = [kind |-> "return", res |-> r, err |-> NoError]
    /\ UNCHANGED << waitMs, delays >>

\* await fullJitter(baseBackoffMs, attempt): the delay computed but wait not
\* called, so the function resumes without any delay.
Backoff_noWait ==
    /\ pc' = "wait"
    /\ UNCHANGED << waitMs, delays, result >>

\* await wait(fullJitter(baseBackoffMs, attempt - 1)): the attempt counted
\* from 0.
Backoff_zeroIndexed ==
    \E n \in 0..(RandDen - 1) :
        /\ pc' = "wait"
        /\ waitMs' = fullJitter(baseBackoffMs, attempt - 1, << n, RandDen >>)
        /\ delays' = Append(delays, attempt - 1)
        /\ UNCHANGED result

\* await wait(fullJitter(baseBackoffMs, attempt))
Backoff ==
    \E n \in 0..(RandDen - 1) :
        /\ pc' = "wait"
        /\ waitMs' = fullJitter(baseBackoffMs, attempt, << n, RandDen >>)
        /\ delays' = Append(delays, attempt)
        /\ UNCHANGED result

\* The ok test lost (or made after the predicate): every response is read and
\* judged.
IsOk_never(r) == FALSE

\* if (res): a test of the response instead of its ok flag.
IsOk_truthy(r) == TRUE

\* if (res.ok)
IsOk(r) == r.ok

\* The option consulted only after the default policy:
\* defaultShouldRetry(res) || shouldRetry(res, text).
ShouldRetryCall_orDefault(p, r, body) ==
    IF defaultShouldRetry(r) THEN "true" ELSE shouldRetryResult(p, r, body)

\* const isContinue = shouldRetry(res, text), shouldRetry being the option or,
\* when the option is undefined, defaultShouldRetry.
ShouldRetryCall(p, r, body) == shouldRetryResult(p, r, body)

\* new Error(`HTTP ${res.status}`), created during invocation id
ExhaustedError(r, id) == ErrorValue("Error", "Error", "exhausted", id, r.status)

\* The non-retriable error created as a TypeError.
NonRetriableError_type(r, id) ==
    ErrorValue("TypeError", "TypeError", "nonretriable", id, r.status)

\* new Error(`Non-retriable HTTP error: ${res.status}`)
NonRetriableError(r, id) == ErrorValue("Error", "Error", "nonretriable", id, r.status)

\* new Error('Unreachable')
UnreachableError == ErrorValue("Error", "Error", "unreachable", 0, 0)

\* attempt === retries - 1: retries read as the number of additional tries.
IsLastAttempt_early(att, n) == att = n - 1

\* attempt === retries
IsLastAttempt(att, n) == att = n

\* The first test made on the name alone (no instanceof Error).
Classify_byName(err) ==
    IF err.name = "AbortError" THEN "abort"
    ELSE IF InstanceOfTypeError(err) THEN "network"
    ELSE "fatal"

\* The second test made with instanceof Error.
Classify_anyError(err) ==
    IF InstanceOfError(err) /\ err.name = "AbortError" THEN "abort"
    ELSE IF InstanceOfError(err) THEN "network"
    ELSE "fatal"

\* The catch block without its TypeError test.
Classify_abortOnly(err) ==
    IF InstanceOfError(err) /\ err.name = "AbortError" THEN "abort"
    ELSE "fatal"

\* The two tests of the catch block, in the order the code makes them.
Classify(err) ==
    IF InstanceOfError(err) /\ err.name = "AbortError" THEN "abort"
    ELSE IF InstanceOfTypeError(err) THEN "network"
    ELSE "fatal"

\* The catch block, entered with err while the timer is in state t.
Catch(err, t) ==
    /\ timer' = clearTimeout(t)
    /\ IF Classify(err) = "abort"
       THEN IF IsLastAttempt(attempt, retries) THEN Throw(err) ELSE Backoff
       ELSE IF Classify(err) = "network"
       THEN IF IsLastAttempt(attempt, retries) THEN Throw(err) ELSE Backoff
       ELSE Throw(err)

\* attempt < retries
LoopCondition_strict(att, n) == att < n

\* attempt <= retries
LoopCondition(att, n) == att <= n

\* The head of the for loop with the loop variable at att: either the next
\* attempt starts (controller, timer, fetch) or the loop is left and the
\* statement after it throws.
LoopHead(att) ==
    /\ attempt' = att
    /\ IF LoopCondition(att, retries)
       THEN /\ pc' = "fetch"
            /\ timer' = "armed"
            /\ aborted' = FALSE
            /\ calls' = calls + 1
            /\ res' = NoResponse
            /\ text' = ""
            /\ UNCHANGED << result, waitMs, delays >>
       ELSE /\ Throw(UnreachableError)
            /\ UNCHANGED << timer, aborted, calls, res, text >>
    /\ UNCHANGED << other, config, outcomes, predCalls, predArg >>

\* fetchRetrier(url, options) is called: the code up to the first await.
Call ==
    /\ pc = "start"
    /\ LoopHead(1)

\* The try block without its clearTimeout(timer): the timer is cleared in the
\* catch block only.
FetchResolve_noClear(status, body) ==
    /\ pc = "fetch"
    /\ ~aborted
    /\ LET r == Response(calls, status, body) IN
        /\ res' = r
        /\ IF IsOk(r)
           THEN /\ Return(r)
                /\ outcomes' = Append(outcomes, Outcome("ok", r.status, NoError))
           ELSE /\ pc' = "text"
                /\ UNCHANGED << result, waitMs, delays, outcomes >>
    /\ UNCHANGED << other, config, attempt, timer, aborted, text, calls, predCalls, predArg >>

\* The transport resolves with a response of the given status and body.
FetchResolve(status, body) ==
    /\ pc = "fetch"
    /\ ~aborted
    /\ LET r == Response(calls, status, body) IN
        /\ res' = r
        /\ IF IsOk(r)
           THEN /\ timer' = clearTimeout(timer)
                /\ Return(r)
                /\ outcomes' = Append(outcomes, Outcome("ok", r.status, NoError))
           ELSE /\ timer' = clearTimeout(timer)
                /\ pc' = "text"
                /\ UNCHANGED << result, waitMs, delays, outcomes >>
    /\ UNCHANGED << other, config, attempt, aborted, text, calls, predCalls, predArg >>

\* The transport rejects on its own with a value of the given shape.
FetchReject(shape) ==
    /\ pc = "fetch"
    /\ ~aborted
    /\ LET err == ErrorValue(shape[1], shape[2], "fetch", calls, 0) IN
        /\ Catch(err, timer)
        /\ outcomes' = Append(outcomes, Outcome(Classify(err), 0, err))
    /\ UNCHANGED << other, config, attempt, aborted, res, text, calls, predCalls, predArg >>

\* A pending timeout timer fires, whatever the call is doing:
\* controller.abort().
TimerFire ==
    /\ timer = "armed"
    /\ timer' = "fired"
    /\ aborted' = TRUE
    /\ UNCHANGED << other, config, pc, attempt, res, text, waitMs, result, calls,
                    outcomes, delays, predCalls, predArg >>

\* The transport, its signal aborted, rejects with the AbortError.
FetchAbort ==
    /\ pc = "fetch"
    /\ aborted
    /\ LET err == ErrorValue("Error", "AbortError", "fetch", calls, 0) IN
        /\ Catch(err, timer)
        /\ outcomes' = Append(outcomes, Outcome(Classify(err), 0, err))
    /\ UNCHANGED << other, config, attempt, aborted, res, text, calls, predCalls, predArg >>

\* res.text() resolves with body; the predicate is evaluated on it.
TextResolve(body) ==
    /\ pc = "text"
    /\ body = res.body
    /\ text' = body
    /\ predCalls' = predCalls + 1
    /\ predArg' = [res |-> res, body |-> body]
    /\ LET isContinue == ShouldRetryCall(shouldRetry, res, body) IN
        IF isContinue = "true"
        THEN /\ outcomes' = Append(outcomes, Outcome("retriable", res.status, NoError))
             /\ IF IsLastAttempt(attempt, retries)
                THEN Catch(ExhaustedError(res, calls), timer)
                ELSE Backoff /\ UNCHANGED timer
        ELSE IF isContinue = "false"
        THEN /\ outcomes' = Append(outcomes, Outcome("nonretriable", res.status, NoError))
             /\ Catch(NonRetriableError(res, calls), timer)
        ELSE LET err == ErrorValue(isContinue, isContinue, "pred", calls, 0) IN
             /\ outcomes' = Append(outcomes, Outcome(Classify(err), 0, err))
             /\ Catch(err, timer)
    /\ UNCHANGED << other, config, attempt, aborted, res, calls >>

\* res.text() rejects with a value of the given shape.
TextReject(shape) ==
    /\ pc = "text"
    /\ LET err == ErrorValue(shape[1], shape[2], "text", calls, 0) IN
        /\ Catch(err, timer)
        /\ outcomes' = Append(outcomes, Outcome(Classify(err), 0, err))
    /\ UNCHANGED << other, config, attempt, aborted, res, text, calls, predCalls, predArg >>

\* The backoff timer fires: the loop variable is incremented and the loop
\* head runs again.
WaitDone ==
    /\ pc = "wait"
    /\ LoopHead(attempt + 1)

Next ==
    \/ Call
    \/ \E status \in Statuses, body \in Bodies : FetchResolve(status, body)
    \/ \E shape \in ThrownShapes : FetchReject(shape)
    \/ TimerFire
    \/ FetchAbort
    \/ \E body \in Bodies : TextResolve(body)
    \/ \E shape \in ThrownShapes : TextReject(shape)
    \/ WaitDone

Spec == Init /\ [][Next]_vars

\* The timers are fair: a timeout timer that stays armed fires, an aborted
\* transport call rejects, a backoff timer fires, and a call that was made
\* starts.  Nothing makes the transport answer or a body arrive.
FairSpec ==
    Spec /\ WF_vars(Call) /\ WF_vars(TimerFire) /\ WF_vars(FetchAbort) /\ WF_vars(WaitDone)

\* Two calls of fetchRetrier on one event loop.  Every state of a call is a
\* suspension point (or its start or end), so the next event may belong to
\* either call: Switch makes the suspended call the running one.  All the
\* variables of fetchRetrier are locals of the call, so all are exchanged.
ConcStatuses == {200, 400, 503}
ConcBodies == {"teapot"}
ConcShapes == { <<"Error", "AbortError">>, <<"TypeError", "TypeError">>, <<"Error", "Error">> }

ConcInit ==
    /\ retries \in 1..ConcRetries
    /\ baseBackoffMs = 1
    /\ shouldRetry = "default"
    /\ pc = "start"
    /\ attempt = 0
    /\ timer = "none"
    /\ aborted = FALSE
    /\ res = NoResponse
    /\ text = ""
    /\ waitMs = 0
    /\ result = NoResult
    /\ calls = 0
    /\ outcomes = << >>
    /\ delays = << >>
    /\ predCalls = 0
    /\ predArg = NoArg
    /\ \E r \in 1..ConcRetries : other = NewCall(r, 1, "default")

\* attempt declared outside the function (one loop variable for all calls):
\* it is not exchanged.
Switch_sharedAttempt ==
    /\ other # NoCall
    /\ other' = ThisCall
    /\ retries' = other.retries
    /\ baseBackoffMs' = other.baseBackoffMs
    /\ shouldRetry' = other.shouldRetry
    /\ pc' = other.pc
    /\ attempt' = attempt
    /\ timer' = other.timer
    /\ aborted' = other.aborted
    /\ res' = other.res
    /\ text' = other.text
    /\ waitMs' = other.waitMs
    /\ result' = other.result
    /\ calls' = other.calls
    /\ outcomes' = other.outcomes
    /\ delays' = other.delays
    /\ predCalls' = other.predCalls
    /\ predArg' = other.predArg

Switch ==
    /\ other # NoCall
    /\ other' = ThisCall
    /\ retries' = other.retries
    /\ baseBackoffMs' = other.baseBackoffMs
    /\ shouldRetry' = other.shouldRetry
    /\ pc' = other.pc
    /\ attempt' = other.attempt
    /\ timer' = other.timer
    /\ aborted' = other.aborted
    /\ res' = other.res
    /\ text' = other.text
    /\ waitMs' = other.waitMs
    /\ result' = other.result
    /\ calls' = other.calls
    /\ outcomes' = other.outcomes
    /\ delays' = other.delays
    /\ predCalls' = other.predCalls
    /\ predArg' = other.predArg

ConcNext ==
    \/ Switch
    \/ Call
    \/ \E status \in ConcStatuses, body \in ConcBodies : FetchResolve(status, body)
    \/ \E shape \in ConcShapes : FetchReject(shape)
    \/ TimerFire
    \/ FetchAbort
    \/ \E body \in ConcBodies : TextResolve(body)
    \/ \E shape \in ConcShapes : TextReject(shape)
    \/ WaitDone

ConcSpec == ConcInit /\ [][ConcNext]_vars

\* fullJitter on its own: base and attempt are drawn from their ranges and
\* the function is applied once with a value of the randomness source; the
\* result is left in waitMs.
JitterInit ==
    /\ baseBackoffMs \in 0..JMaxBase
    /\ attempt \in 1..JMaxAttempt
    /\ pc = "jitter"
    /\ retries = 0
    /\ shouldRetry = "default"
    /\ timer = "none"
    /\ aborted = FALSE
    /\ res = NoResponse
    /\ text = ""
    /\ waitMs = 0
    /\ result = NoResult
    /\ calls = 0
    /\ outcomes = << >>
    /\ delays = << >>
    /\ predCalls = 0
    /\ predArg = NoArg
    /\ other = NoCall

JitterApply ==
    /\ pc = "jitter"
    /\ \E d \in 1..JRandDen : \E n \in 0..(d - 1) :
          waitMs' = fullJitter(baseBackoffMs, attempt, << n, d >>)
    /\ pc' = "jittered"
    /\ UNCHANGED << other, config, attempt, timer, aborted, res, text, result, calls,
                    outcomes, delays, predCalls, predArg >>

JitterNext == JitterApply

JitterSpec == JitterInit /\ [][JitterNext]_vars

TypeOK ==
    /\ pc \in {"start", "fetch", "text", "wait", "returned", "failed"}
    /\ attempt \in 0..(MaxRetries + 2)
    /\ timer \in {"none", "armed", "fired", "cleared"}
    /\ calls \in 0..(MaxRetries + 1)

\* ---------------------------------------------------------------- properties
Terminal == pc \in {"returned", "failed"}
Running == pc \in {"fetch", "text", "wait"}
NOutcomes == Len(outcomes)
LastOutcome == outcomes[Len(outcomes)]

\* The attempts 1..k all ended with a response the predicate accepted.
AllRetriable(k) == \A i \in 1..k : outcomes[i].kind = "retriable"

\* One backoff delay was taken after each of the attempts 1..k, and no other.
DelaysAfter(k) == delays = [i \in 1..k |-> i]

\* A caught value as the catch block tells it apart: an Error named
\* AbortError, or else a TypeError.
IsCancellation(e) == e.cls \in {"Error", "TypeError"} /\ e.name = "AbortError"
IsNetwork(e) == e.cls = "TypeError" /\ ~IsCancellation(e)
IsTransient(e) == IsCancellation(e) \/ IsNetwork(e)
FromTransport(e) == e.origin = "fetch"

\* C1: with retries = N >= 1 and every attempt so far ended by a non-ok
\* response the predicate accepted, the call is still running while fewer than
\* N attempts have ended (one delay taken per ended attempt), and once N have
\* ended it has failed with the HTTP <status> error of the N-th response after
\* exactly N transport invocations and N-1 delays.
C1_ExhaustedAfterN ==
    (retries >= 1 /\ NOutcomes >= 1 /\ AllRetriable(NOutcomes)) =>
        /\ NOutcomes <= retries
        /\ NOutcomes < retries => (Running /\ DelaysAfter(NOutcomes))
        /\ NOutcomes = retries =>
              /\ pc = "failed"
              /\ calls = retries
              /\ DelaysAfter(retries - 1)
              /\ result.kind = "throw"
              /\ result.err.origin = "exhausted"
              /\ result.err.status = outcomes[retries].status
              /\ res.id = retries /\ res.status = result.err.status

C1_Witness ==
    /\ retries = 3 /\ NOutcomes = 3 /\ AllRetriable(3)
    /\ pc = "failed" /\ result.err.origin = "exhausted" /\ Len(delays) = 2

\* C2: when attempts 1..k-1 ended by accepted non-ok responses and attempt k
\* yields an ok response, the call has returned the response object of the
\* k-th invocation itself, after exactly k invocations and k-1 delays.
C2_OkAfterRetries ==
    (NOutcomes >= 1 /\ LastOutcome.kind = "ok" /\ AllRetriable(NOutcomes - 1)) =>
        /\ NOutcomes <= retries
        /\ pc = "returned"
        /\ result.kind = "return"
        /\ result.res = res
        /\ result.res.id = NOutcomes
        /\ result.res.status = LastOutcome.status
        /\ calls = NOutcomes
        /\ DelaysAfter(NOutcomes - 1)

C2_Witness ==
    /\ retries = 3 /\ NOutcomes = 3 /\ AllRetriable(2) /\ outcomes[3].kind = "ok"
    /\ pc = "returned" /\ result.res.id = 3 /\ delays = << 1, 2 >>

\* C3: an attempt that ends by a non-ok response the predicate rejects makes
\* the call fail at once with the non-retriable error carrying that status:
\* no delay is taken after it and no further invocation is made, however
\* many attempts remain.
C3_NonRetriableImmediate ==
    (NOutcomes >= 1 /\ LastOutcome.kind = "nonretriable") =>
        /\ pc = "failed"
        /\ result.kind = "throw"
        /\ result.err.origin = "nonretriable"
        /\ result.err.status = LastOutcome.status
        /\ res.status = LastOutcome.status /\ res.id = NOutcomes
        /\ calls = NOutcomes
        /\ attempt = NOutcomes
        /\ Len(delays) = NOutcomes - 1

C3_Witness ==
    /\ retries = 3 /\ NOutcomes = 2 /\ LastOutcome.kind = "nonretriable"
    /\ pc = "failed" /\ result.err.origin = "nonretriable" /\ calls = 2

\* C4: a transport invocation that fails with a value that is neither an
\* Error named AbortError nor a TypeError makes the call fail at once with
\* that very value: no delay and no further invocation follow.
C4_FatalImmediate ==
    (NOutcomes >= 1 /\ FromTransport(LastOutcome.err) /\ ~IsTransient(LastOutcome.err)) =>
        /\ pc = "failed"
        /\ result.kind = "throw"
        /\ result.err = LastOutcome.err
        /\ result.err.id = NOutcomes
        /\ calls = NOutcomes
        /\ attempt = NOutcomes
        /\ Len(delays) = NOutcomes - 1

C4_Witness ==
    /\ retries = 3 /\ NOutcomes = 1 /\ FromTransport(LastOutcome.err)
    /\ LastOutcome.err.cls = "Error" /\ LastOutcome.err.name = "Error"
    /\ pc = "failed" /\ result.err = LastOutcome.err /\ calls = 1

\* C5: a transport failure that is an AbortError or a TypeError is transient:
\* on an attempt before the last, one delay is taken and then the next attempt
\* starts; on the last attempt the call fails with the original value.  When
\* every attempt failed this way, exactly retries invocations were made.
C5_TransientRetried ==
    (NOutcomes >= 1 /\ FromTransport(LastOutcome.err) /\ IsTransient(LastOutcome.err)) =>
        /\ NOutcomes <= retries
        /\ NOutcomes < retries =>
              /\ Len(delays) = NOutcomes /\ delays[NOutcomes] = NOutcomes
              /\ \/ pc = "wait" /\ calls = NOutcomes /\ attempt = NOutcomes
                 \/ pc \in {"fetch", "text"} /\ calls = NOutcomes + 1
                        /\ attempt = NOutcomes + 1
        /\ NOutcomes = retries =>
              /\ pc = "failed"
              /\ result.kind = "throw"
              /\ result.err = LastOutcome.err
              /\ calls = retries
              /\ Len(delays) = retries - 1

C5_Witness ==
    /\ retries = 3 /\ NOutcomes = 3 /\ pc = "failed" /\ calls = 3
    /\ \A i \in 1..3 : FromTransport(outcomes[i].err) /\ IsTransient(outcomes[i].err)
    /\ IsNetwork(outcomes[1].err) /\ IsCancellation(outcomes[2].err)
    /\ result.err = outcomes[3].err /\ result.err.id = 3

\* C6: every call terminates when the timers are fair (a pending timeout
\* timer fires and aborts the transport call, a backoff timer fires), whatever
\* the transport does.
C6_Terminates == <>Terminal

\* C7: the transport is never invoked more than retries times, whatever the
\* attempts ended with, and an exhaustion failure (HTTP <status>, a re-raised
\* AbortError, a re-raised TypeError) is raised only after exactly retries
\* invocations, its kind being the kind of the last attempt's outcome.
ExhaustionKind(e) ==
    IF e.origin = "exhausted" THEN "retriable"
    ELSE IF e.origin \in {"fetch", "text", "pred"} /\ IsCancellation(e) THEN "abort"
    ELSE IF e.origin \in {"fetch", "text", "pred"} /\ IsNetwork(e) THEN "network"
    ELSE "none"

C7_AttemptBudget ==
    /\ calls <= retries
    /\ NOutcomes <= calls
    /\ (pc = "failed" /\ ExhaustionKind(result.err) # "none") =>
          /\ calls = retries
          /\ NOutcomes = retries
          /\ LastOutcome.kind = ExhaustionKind(result.err)

C7_Witness ==
    /\ retries = 3 /\ calls = 3 /\ pc = "failed" /\ NOutcomes = 3
    /\ outcomes[1].kind = "retriable" /\ outcomes[2].kind = "abort"
    /\ outcomes[3].kind = "network" /\ ExhaustionKind(result.err) = "network"

\* C8: the call returns a value only when the response of the current attempt
\* is ok: what it returns is the ok response of the last invocation, and a
\* call that ended otherwise ended with an error.
C8_ReturnOnlyOk ==
    /\ (result.kind = "return") <=> (pc = "returned")
    /\ (result.kind = "throw") <=> (pc = "failed")
    /\ pc = "returned" =>
          /\ result.res.ok
          /\ result.res.status \in 200..299
          /\ result.res = res
          /\ res.id = calls
          /\ NOutcomes = calls /\ LastOutcome.kind = "ok"
    /\ pc = "failed" => (result.err # NoError /\ result.res = NoResponse)
    /\ (Terminal /\ (NOutcomes = 0 \/ LastOutcome.kind # "ok")) => pc = "failed"

C8_Witness ==
    /\ pc = "returned" /\ calls = 2 /\ outcomes[1].kind = "network"
    /\ result.res.ok /\ result.res.id = 2

\* C9: without a shouldRetry option, a non-ok response is judged retriable
\* exactly when its status is one of 429, 500, 502, 503, 504, and
\* non-retriable otherwise.
C9_DefaultPolicy ==
    shouldRetry = "default" =>
        /\ \A i \in 1..NOutcomes :
              /\ outcomes[i].kind = "retriable" =>
                    outcomes[i].status \in {429, 500, 502, 503, 504}
              /\ outcomes[i].kind = "nonretriable" =>
                    outcomes[i].status \notin {429, 500, 502, 503, 504}
        /\ (pc \in {"wait", "failed"} /\ predArg.res = res /\ res.id = calls /\ calls >= 1) =>
              /\ LastOutcome.status = res.status
              /\ LastOutcome.kind =
                    IF res.status \in {429, 500, 502, 503, 504}
                    THEN "retriable" ELSE "nonretriable"

C9_Witness ==
    /\ shouldRetry = "default" /\ NOutcomes = 2 /\ pc = "failed"
    /\ outcomes[1].kind = "retriable" /\ outcomes[1].status = 429
    /\ outcomes[2].kind = "nonretriable" /\ outcomes[2].status = 418

\* C10: a shouldRetry option replaces the default policy: it is evaluated once
\* per non-ok response, on that response and the body read from it, and what
\* it returns decides alone: true retries (418 included), false fails with
\* the non-retriable error (503 included).
C10_CustomPredicate ==
    shouldRetry \in {"teapot", "never", "body", "readme"} =>
        /\ predCalls =
             Cardinality({i \in 1..NOutcomes : outcomes[i].kind \in {"retriable", "nonretriable"}})
        /\ (pc \in {"wait", "failed"} /\ predArg.res = res /\ res.id = calls /\ calls >= 1) =>
              /\ ~res.ok
              /\ predArg.body = text /\ text \in Bodies
              /\ LET verdict == shouldRetryResult(shouldRetry, res, text) IN
                  /\ verdict = "true" =>
                        /\ LastOutcome.kind = "retriable"
                        /\ attempt < retries => pc = "wait"
                        /\ attempt = retries => result.err.origin = "exhausted"
                  /\ verdict = "false" =>
                        /\ LastOutcome.kind = "nonretriable"
                        /\ pc = "failed"
                        /\ result.err.origin = "nonretriable"
                        /\ result.err.status = res.status
              /\ (shouldRetry = "teapot" /\ res.status = 418 /\ attempt < retries) =>
                    pc = "wait"
              /\ (shouldRetry = "never" /\ res.status = 503) =>
                    (pc = "failed" /\ result.err.origin = "nonretriable")

C10_Witness ==
    /\ shouldRetry = "teapot" /\ pc = "returned" /\ calls = 2 /\ predCalls = 1
    /\ outcomes[1].kind = "retriable" /\ outcomes[1].status = 418
    /\ predArg.res.status = 418 /\ predArg.res.id = 1 /\ predArg.body = "teapot"

\* C11: the predicate is evaluated only during the step that follows the
\* body read of the current attempt's response, that response is not ok, and
\* the arguments are that response and the body just read; a response that was
\* returned was never given to the predicate.
C11_PredicateOnlyNonOk ==
    /\ [](predCalls > 0 => (~predArg.res.ok /\ predArg.body = predArg.res.body))
    /\ [](pc = "returned" => predArg.res # result.res)
    /\ [][predCalls' # predCalls =>
            /\ predCalls' = predCalls + 1
            /\ pc = "text"
            /\ ~res.ok /\ res.id = calls
            /\ text' \in Bodies /\ text' = res.body
            /\ predArg' = [res |-> res, body |-> text']]_vars

C11_Witness ==
    /\ pc = "returned" /\ calls = 3 /\ predCalls = 2
    /\ predArg.res.id = 2 /\ predArg.res.status = 503 /\ ~predArg.res.ok

\* C12: with the predicate of the README's example, a status-200 response whose
\* body contains "retry": true is not returned: the call waits and retries.
C12_RetryOn200 ==
    (shouldRetry = "readme" /\ res.id = calls /\ res.status = 200
        /\ BodyIncludesRetry(res.body)
        /\ shouldRetryResult(shouldRetry, res, res.body) = "true")
    => pc # "returned"

\* C13 as stated: for base >= 0 and attempt >= 1, fullJitter returns an
\* integer d with 0 <= d < base * 2^attempt, whatever the randomness source
\* yields.
C13_JitterBelowCap ==
    pc = "jittered" =>
        (waitMs \in Int /\ 0 <= waitMs /\ waitMs < baseBackoffMs * 2 ^ attempt)

\* C13 amended: the result is an integer d with 0 <= d <= base * 2^attempt,
\* below base * 2^attempt when base > 0 and equal to 0 when base = 0.
C13_JitterWithinCap ==
    pc = "jittered" =>
        /\ waitMs \in Int /\ 0 <= waitMs
        /\ waitMs <= baseBackoffMs * 2 ^ attempt
        /\ baseBackoffMs > 0 => waitMs < baseBackoffMs * 2 ^ attempt
        /\ baseBackoffMs = 0 => waitMs = 0

C13_Witness ==
    pc = "jittered" /\ baseBackoffMs = 3 /\ attempt = 2 /\ waitMs = 10

\* C14: the attempts of a call are sequential: a transport invocation is
\* pending only during the fetch of the current attempt (never two at once),
\* and a new invocation is made only when every earlier attempt has been
\* classified and exactly one backoff delay per earlier attempt has been
\* taken, the last of them the one that just elapsed.
C14_Sequential ==
    /\ [](calls = NOutcomes + (IF pc \in {"fetch", "text"} THEN 1 ELSE 0))
    /\ [][calls' # calls =>
            /\ calls' = calls + 1
            /\ attempt' = calls'
            /\ pc' = "fetch"
            /\ NOutcomes = calls
            /\ Len(delays) = calls
            /\ calls = 0 => pc = "start"
            /\ calls >= 1 => (pc = "wait" /\ delays[calls] = calls)]_vars

C14_Witness ==
    pc = "fetch" /\ calls = 3 /\ NOutcomes = 2 /\ delays = << 1, 2 >>

\* C15: two calls interleaved at their suspension points do not interfere.
\* CallLocal(s) says that the attempt counter, the timer, the signal and the
\* outcome of the call with variables s are what s's own configuration and
\* own attempt outcomes make them; it holds of both calls in every
\* interleaving, and a step of one call changes nothing of the other.
CallLocal(s) ==
    LET k == Len(s.outcomes)
        inAttempt == s.pc \in {"fetch", "text"}
    IN
    /\ s.attempt = s.calls
    /\ s.calls = k + (IF inAttempt THEN 1 ELSE 0)
    /\ s.calls <= s.retries
    /\ Len(s.delays) = (IF s.pc \in {"returned", "failed"} THEN k - 1 ELSE k)
    /\ \A i \in 1..Len(s.delays) : s.delays[i] = i
    /\ \A i \in 1..k : s.outcomes[i].err # NoError => s.outcomes[i].err.id = i
    /\ s.res.id \in {0, s.calls}
    /\ s.pc = "start" => (s.timer = "none" /\ ~s.aborted)
    /\ s.pc = "fetch" => (s.timer \in {"armed", "fired"} /\ (s.aborted <=> s.timer = "fired"))
    /\ s.pc \in {"text", "wait", "returned", "failed"} =>
          (s.timer \in {"cleared", "fired"} /\ (s.aborted <=> s.timer = "fired"))
    /\ s.pc \in {"start", "fetch", "text", "wait"} => s.result = NoResult
    /\ s.pc = "returned" =>
          /\ s.outcomes[k].kind = "ok"
          /\ s.res.id = k /\ s.res.status = s.outcomes[k].status
          /\ s.result = [kind |-> "return", res |-> s.res, err |-> NoError]
    /\ s.pc = "failed" =>
          /\ s.result.kind = "throw" /\ s.result.res = NoResponse
          /\ s.outcomes[k].kind \in {"retriable", "nonretriable", "abort", "network", "fatal"}
          /\ s.outcomes[k].kind \in {"retriable", "abort", "network"} => k = s.retries
          /\ s.result.err =
                IF s.outcomes[k].kind = "retriable"
                THEN ErrorValue("Error", "Error", "exhausted", k, s.outcomes[k].status)
                ELSE IF s.outcomes[k].kind = "nonretriable"
                THEN ErrorValue("Error", "Error", "nonretriable", k, s.outcomes[k].status)
                ELSE s.outcomes[k].err

C15_NoInterference ==
    /\ [](CallLocal(ThisCall) /\ CallLocal(other))
    /\ [][other' = other \/ (other' = ThisCall /\ ThisCall' = other)]_vars

C15_Witness ==
    /\ pc = "returned" /\ retries = 2 /\ calls = 2 /\ outcomes[1].kind = "abort"
    /\ other.pc = "failed" /\ other.retries = 1 /\ other.calls = 1
    /\ other.outcomes[1].kind = "retriable"

\* C16: each attempt has its own timer and signal.  A timer is pending only
\* while the transport call of its attempt is in flight, so none is pending
\* during a body read or a backoff delay or after the call has ended; an
\* attempt starts with a new pending timer and a signal that is not aborted,
\* the previous timer no longer pending (at most one is pending); and a timer
\* fires only during the fetch of the attempt that armed it.
C16_TimerOwnedByAttempt ==
    /\ [](timer = "armed" => (pc = "fetch" /\ attempt = calls /\ ~aborted))
    /\ [](pc \in {"text", "wait", "returned", "failed"} /\ calls >= 1
            => timer \in {"cleared", "fired"})
    /\ [][calls' # calls => (timer # "armed" /\ timer' = "armed" /\ ~aborted')]_vars
    /\ [][(timer' = "fired" /\ timer # "fired") =>
            /\ timer = "armed" /\ pc = "fetch" /\ pc' = "fetch"
            /\ NOutcomes = calls - 1 /\ calls' = calls
            /\ aborted']_vars

C16_Witness ==
    /\ pc = "fetch" /\ calls = 3 /\ timer = "fired" /\ aborted
    /\ outcomes[1].kind = "abort" /\ outcomes[2].kind = "retriable"

\* C17: the step that takes the call out of the awaited fetch (a response or
\* an error) cancels the attempt's timer if it is still pending, so the timer
\* is disarmed when the body read starts, while it lasts (the timeout cannot
\* abort the signal then: nothing bounds the body read) and when the predicate
\* is evaluated or an outcome is classified.
C17_TimerClearedOnSettle ==
    /\ [][(pc = "fetch" /\ pc' # "fetch") =>
            timer' = (IF timer = "armed" THEN "cleared" ELSE timer)]_vars
    /\ [](pc = "text" => (timer = "cleared" /\ ~aborted /\ ~ENABLED TimerFire))
    /\ [][pc = "text" => (timer' = timer /\ aborted' = aborted)]_vars
    /\ [][predCalls' # predCalls => (timer = "cleared" /\ timer' = "cleared")]_vars
    /\ [][NOutcomes' # NOutcomes => timer' \in {"cleared", "fired"}]_vars

C17_Witness ==
    /\ pc = "text" /\ calls = 2 /\ timer = "cleared" /\ ~aborted
    /\ res.status = 503 /\ outcomes[1].kind = "network"

\* The cap of the delay taken after attempt k.
BackoffCap(k) == baseBackoffMs * 2 ^ k

\* The k-th delay of the call was computed with attempt number k, the delay
\* being taken now is the one after the attempt that just failed, and the caps
\* do not decrease from one delay to the next (they increase when
\* baseBackoffMs > 0).
DelaysUseAttemptNumber ==
    /\ \A i \in 1..Len(delays) : delays[i] = i
    /\ pc = "wait" => (attempt = NOutcomes /\ Len(delays) = attempt)
    /\ \A i, j \in 1..Len(delays) :
          i < j => /\ BackoffCap(delays[i]) <= BackoffCap(delays[j])
                   /\ baseBackoffMs > 0 => BackoffCap(delays[i]) < BackoffCap(delays[j])

\* C18 as stated: the delay taken after failed attempt k is computed with
\* attempt number k whatever the kind of failure, lies below the cap
\* baseBackoffMs * 2^k, and the caps are non-decreasing.
C18_DelayBelowCap ==
    /\ DelaysUseAttemptNumber
    /\ pc = "wait" => (0 <= waitMs /\ waitMs < BackoffCap(attempt))

\* C18 amended: the delay is at most the cap, and below it when
\* baseBackoffMs > 0 (with baseBackoffMs = 0 the delay and the cap are 0).
C18_DelayWithinCap ==
    /\ DelaysUseAttemptNumber
    /\ pc = "wait" =>
          /\ 0 <= waitMs /\ waitMs <= BackoffCap(attempt)
          /\ baseBackoffMs > 0 => waitMs < BackoffCap(attempt)
          /\ (baseBackoffMs > 0 /\ attempt = 1) => waitMs < 2 * baseBackoffMs
          /\ baseBackoffMs = 0 => waitMs = 0

C18_Witness ==
    /\ pc = "wait" /\ baseBackoffMs = 1 /\ attempt = 2 /\ waitMs = 2
    /\ delays = << 1, 2 >>
    /\ outcomes[1].kind = "retriable" /\ outcomes[2].kind = "network"

\* C19: the Unreachable error is raised exactly when the loop body never ran:
\* never with retries >= 1, whatever the attempts end with, and always with
\* retries = 0, where the call fails with it after no transport invocation and
\* no delay.
C19_UnreachableOnlyWithZero ==
    /\ (result.err.origin = "unreachable") <=> (Terminal /\ calls = 0)
    /\ retries >= 1 => result.err.origin # "unreachable"
    /\ (Terminal /\ retries >= 1) => (calls >= 1 /\ NOutcomes = calls)
    /\ (retries = 0 /\ pc # "start") =>
          /\ pc = "failed"
          /\ calls = 0 /\ NOutcomes = 0 /\ delays = << >> /\ predCalls = 0
          /\ timer = "none"
          /\ result = [kind |-> "throw", res |-> NoResponse,
                       err |-> ErrorValue("Error", "Error", "unreachable", 0, 0)]

C19_Witness ==
    /\ retries = 0 /\ pc = "failed" /\ calls = 0 /\ delays = << >>
    /\ result.kind = "throw" /\ result.err.origin = "unreachable"

\* C20: a value thrown after the transport call succeeded, by the body read
\* or by the predicate, is classified like a transport error: an Error named
\* AbortError or a TypeError uses up the attempt and is retried after one
\* backoff delay while attempts remain, and is re-raised on the last attempt;
\* any other value is re-raised at once, without delay or further invocation.
C20_LateErrorsClassified ==
    (NOutcomes >= 1 /\ LastOutcome.err.origin \in {"text", "pred"}) =>
        /\ LastOutcome.err.id = NOutcomes
        /\ NOutcomes <= retries
        /\ (IsTransient(LastOutcome.err) /\ NOutcomes < retries) =>
              /\ Len(delays) = NOutcomes /\ delays[NOutcomes] = NOutcomes
              /\ \/ pc = "wait" /\ calls = NOutcomes /\ attempt = NOutcomes
                 \/ pc \in {"fetch", "text"} /\ calls = NOutcomes + 1
                        /\ attempt = NOutcomes + 1
        /\ (IsTransient(LastOutcome.err) /\ NOutcomes = retries) =>
              /\ pc = "failed"
              /\ result.kind = "throw" /\ result.err = LastOutcome.err
              /\ calls = retries /\ Len(delays) = retries - 1
        /\ ~IsTransient(LastOutcome.err) =>
              /\ pc = "failed"
              /\ result.kind = "throw" /\ result.err = LastOutcome.err
              /\ calls = NOutcomes /\ Len(delays) = NOutcomes - 1

C20_Witness ==
    /\ shouldRetry = "throwsType" /\ retries = 3 /\ NOutcomes = 2 /\ pc = "failed"
    /\ outcomes[1].err.origin = "pred" /\ IsNetwork(outcomes[1].err)
    /\ outcomes[2].err.origin = "text" /\ ~IsTransient(outcomes[2].err)
    /\ result.err = outcomes[2].err /\ delays = << 1 >>

====
